---- MODULE Spec2Model ----
(***************************************************************************)
(* Scanning and enforcement pipeline of the code-review service:           *)
(* backend/engines/policy_engine.py (PolicyEngine) and                     *)
(* backend/core/scanner.py (CodeScanner.scan).                             *)
(*                                                                         *)
(* Source text is abstracted to lines that are tokens: a token stands for  *)
(* a line on which a given set of the engines' regular expressions match.  *)
(* Python exceptions are the value Raise returned in place of a result.    *)
(***************************************************************************)
EXTENDS Integers, Sequences, FiniteSets, TLC

VARIABLES
    pc,        \* position of the operation under way
    call,      \* arguments of the PolicyEngine method being called
    ret,       \* its return value
    fs,        \* the policy files under config/policies
    rule_packs,\* PolicyEngine.rule_packs: pack name -> pack data
    ai_enabled,\* AIAnalyzer.enabled
    body,      \* the body of the POST /scan/ request
    request,   \* the ScanRequest validated from it
    scan,      \* locals of CodeScanner.scan: policy, all_violations,
               \* filtered_violations, copilot_detected, and file_index,
               \* the position of the loop over request.files
    result,    \* the ScanResult returned
    quota_exceeded,      \* AIAnalyzer.quota_exceeded
    quota_exceeded_time, \* AIAnalyzer.quota_exceeded_time
    now,       \* time.time(), in seconds
    tasks,     \* the adapter calls under way, one per concurrent scan
    quota_log, \* when the adapter last failed a call on quota, and when it
               \* last set quota_exceeded
    policies,  \* PolicyEngine.policies of the policy_engine of api/policies.py
    api_rule_packs, \* PolicyEngine.rule_packs of that policy_engine
    uploaded   \* the pack names upload_rule_pack has installed

scanVars == <<ai_enabled, body, request, scan, result>>

aiVars == <<quota_exceeded, quota_exceeded_time, now, tasks, quota_log>>

apiVars == <<policies, api_rule_packs, uploaded>>

vars == <<pc, call, ret, fs, rule_packs, scanVars, aiVars, apiVars>>

\* ------------------------------------------------------------ bounds
MaxEnfViol == 3      \* violations handed to determine_enforcement
MaxFiltViol == 3     \* violations handed to filter_violations
MaxPackViol == 1     \* violations handed to apply_rule_pack
MaxPackLines == 3    \* lines of a file a rule pack is applied to
MaxLines == 1        \* lines of a file of a scan request
MaxFiles == 2        \* files of a scan request

\* ------------------------------------------------------------ schemas.py
ADVISORY == "advisory"
WARNING == "warning"
BLOCKING == "blocking"
EnforcementMode == {ADVISORY, WARNING, BLOCKING}

LOW == "low"
MEDIUM == "medium"
HIGH == "high"
CRITICAL == "critical"
Severity == {LOW, MEDIUM, HIGH, CRITICAL}

NoValue == "none"

\* no scan is under way
NoScan ==
    /\ ai_enabled = NoValue /\ body = NoValue /\ request = NoValue
    /\ scan = NoValue /\ result = NoValue

\* the policy management interface is not modelled
NoApi == policies = NoValue /\ api_rule_packs = NoValue /\ uploaded = NoValue

\* no adapter call is modelled
NoAdapter ==
    /\ quota_exceeded = NoValue /\ quota_exceeded_time = NoValue
    /\ now = NoValue /\ tasks = NoValue /\ quota_log = NoValue

\* A call either returns a value or raises an exception.
Return(v) == [raised |-> FALSE, value |-> v]
Raise == [raised |-> TRUE]

\* Violation(rule_id, category, severity, file_path, line_number,
\* is_copilot_generated, fix_suggestion), with the fix suggestion the engine
\* that reports it writes
Violation(rule_id, category, severity, file_path, line_number, is_copilot) ==
    [rule_id |-> rule_id, category |-> category, severity |-> severity,
     file_path |-> file_path, line_number |-> line_number,
     is_copilot_generated |-> is_copilot, fix_suggestion |-> "engine"]

\* PolicyConfig with its field defaults
PolicyConfig ==
    [enforcement_mode |-> WARNING, enabled_rules |-> {}, disabled_rules |-> {},
     severity_threshold |-> MEDIUM, rule_packs |-> <<>>,
     allow_blocking_override |-> TRUE]

\* ------------------------------------------------------------ helpers
SeqsUpTo(S, n) == UNION {[1..k -> S] : k \in 0..n}

IsCritical(v) == v.severity = CRITICAL
IsHigh(v) == v.severity = HIGH
IsCopilot(v) == v.is_copilot_generated

\* ------------------------------------------------ determine_enforcement
\* A plausible slip: only the Copilot-critical findings block, and a warning
\* policy warns on high findings too.
determine_enforcement_copilot_only(violations, policy, override_requested) ==
    LET critical_violations == SelectSeq(violations, IsCritical)
        high_violations == SelectSeq(violations, IsHigh)
        copilot_critical == SelectSeq(SelectSeq(violations, IsCopilot), IsCritical)
    IN  IF violations = <<>> THEN <<ADVISORY, TRUE>>
        ELSE IF policy.enforcement_mode = BLOCKING THEN
            IF override_requested /\ policy.allow_blocking_override THEN
                IF critical_violations # <<>> \/ high_violations # <<>>
                THEN <<WARNING, TRUE>> ELSE <<ADVISORY, TRUE>>
            ELSE IF copilot_critical # <<>> THEN <<BLOCKING, FALSE>>
            ELSE <<ADVISORY, TRUE>>
        ELSE IF policy.enforcement_mode = WARNING THEN
            IF critical_violations # <<>> \/ high_violations # <<>>
            THEN <<WARNING, TRUE>> ELSE <<ADVISORY, TRUE>>
        ELSE <<ADVISORY, TRUE>>

\* A plausible slip: a requested override is honoured whether or not the
\* policy allows it.
determine_enforcement_any_override(violations, policy, override_requested) ==
    LET critical_violations == SelectSeq(violations, IsCritical)
        high_violations == SelectSeq(violations, IsHigh)
    IN  IF violations = <<>> THEN <<ADVISORY, TRUE>>
        ELSE IF policy.enforcement_mode = BLOCKING THEN
            IF override_requested THEN
                IF critical_violations # <<>> \/ high_violations # <<>>
                THEN <<WARNING, TRUE>> ELSE <<ADVISORY, TRUE>>
            ELSE IF critical_violations # <<>> \/ high_violations # <<>>
                 THEN <<BLOCKING, FALSE>> ELSE <<ADVISORY, TRUE>>
        ELSE IF policy.enforcement_mode = WARNING THEN
            IF critical_violations # <<>>
            THEN <<WARNING, TRUE>> ELSE <<ADVISORY, TRUE>>
        ELSE <<ADVISORY, TRUE>>

\* PolicyEngine.determine_enforcement: the pair (enforcement_mode, can_merge)
determine_enforcement(violations, policy, override_requested) ==
    LET critical_violations == SelectSeq(violations, IsCritical)
        high_violations == SelectSeq(violations, IsHigh)
        copilot_violations == SelectSeq(violations, IsCopilot)
        copilot_critical == SelectSeq(copilot_violations, IsCritical)
    IN  IF violations = <<>> THEN <<ADVISORY, TRUE>>
        ELSE IF policy.enforcement_mode = BLOCKING THEN
            IF override_requested /\ policy.allow_blocking_override THEN
                IF critical_violations # <<>> \/ copilot_critical # <<>>
                   \/ high_violations # <<>>
                THEN <<WARNING, TRUE>> ELSE <<ADVISORY, TRUE>>
            ELSE IF copilot_critical # <<>> THEN <<BLOCKING, FALSE>>
            ELSE IF critical_violations # <<>> \/ high_violations # <<>>
                 THEN <<BLOCKING, FALSE>> ELSE <<ADVISORY, TRUE>>
        ELSE IF policy.enforcement_mode = WARNING THEN
            IF critical_violations # <<>> \/ copilot_critical # <<>>
            THEN <<WARNING, TRUE>> ELSE <<ADVISORY, TRUE>>
        ELSE <<ADVISORY, TRUE>>

\* ------------------------------------- specification: determine_enforcement
EnfViolations ==
    {Violation("SEC", "security", s, "a.py", 1, c) : s \in Severity, c \in BOOLEAN}

EnfPolicies ==
    {[PolicyConfig EXCEPT !.enforcement_mode = m, !.allow_blocking_override = a] :
        m \in EnforcementMode, a \in BOOLEAN}

InitEnforce ==
    /\ pc = "call"
    /\ call \in [violations : SeqsUpTo(EnfViolations, MaxEnfViol),
                 policy : EnfPolicies, override_requested : BOOLEAN]
    /\ ret = NoValue
    /\ fs = NoValue
    /\ rule_packs = NoValue
    /\ NoScan
    /\ NoAdapter
    /\ NoApi

CallDetermineEnforcement ==
    /\ pc = "call"
    /\ ret' = determine_enforcement(call.violations, call.policy,
                                    call.override_requested)
    /\ pc' = "ret"
    /\ UNCHANGED <<call, fs, rule_packs, apiVars, scanVars, aiVars>>

NextEnforce == CallDetermineEnforcement

SpecEnforce == InitEnforce /\ [][NextEnforce]_vars

\* ------------------------------------------------------------ C1
AnySeverity(violations, S) ==
    \E i \in 1..Len(violations) : violations[i].severity \in S

\* The decision table of the enforcement decision, first matching row wins.
DecisionTable(violations, policy, override_requested) ==
    IF violations = <<>> THEN <<ADVISORY, TRUE>>
    ELSE IF policy.enforcement_mode = ADVISORY THEN <<ADVISORY, TRUE>>
    ELSE IF policy.enforcement_mode = WARNING THEN
        IF AnySeverity(violations, {CRITICAL}) THEN <<WARNING, TRUE>>
        ELSE <<ADVISORY, TRUE>>
    ELSE IF override_requested /\ policy.allow_blocking_override THEN
        IF AnySeverity(violations, {HIGH, CRITICAL}) THEN <<WARNING, TRUE>>
        ELSE <<ADVISORY, TRUE>>
    ELSE IF AnySeverity(violations, {CRITICAL, HIGH}) THEN <<BLOCKING, FALSE>>
    ELSE <<ADVISORY, TRUE>>

\* C1: determine_enforcement returns the pair of the first matching row of the
\* decision table, and can_merge is false only together with mode blocking.
C1_DecisionTable ==
    pc = "ret" =>
        /\ ret = DecisionTable(call.violations, call.policy, call.override_requested)
        /\ (ret[2] = FALSE => ret[1] = BLOCKING)

C1_Witness ==
    /\ pc = "ret"
    /\ ret = <<BLOCKING, FALSE>>
    /\ Len(call.violations) = 2
    /\ call.violations[1].severity = LOW
    /\ call.violations[2].severity = HIGH
    /\ ~call.violations[2].is_copilot_generated

\* ------------------------------------------------------------ C8
Permuted(violations, f) == [i \in 1..Len(violations) |-> violations[f[i]]]

WithFlags(violations, flags) ==
    [i \in 1..Len(violations) |->
        [violations[i] EXCEPT !.is_copilot_generated = flags[i]]]

\* C8: the decision is the same for every permutation of the violation list
\* and for every assignment of the is_copilot_generated flags; a critical
\* finding under a blocking policy without override gives can_merge = false.
C8_OrderAndOriginIndependent ==
    pc = "ret" =>
        LET n == Len(call.violations) IN
        /\ \A f \in Permutations(1..n) :
              determine_enforcement(Permuted(call.violations, f), call.policy,
                                    call.override_requested) = ret
        /\ \A flags \in [1..n -> BOOLEAN] :
              determine_enforcement(WithFlags(call.violations, flags), call.policy,
                                    call.override_requested) = ret
        /\ (/\ call.policy.enforcement_mode = BLOCKING
            /\ ~(call.override_requested /\ call.policy.allow_blocking_override)
            /\ AnySeverity(call.violations, {CRITICAL})) => ret[2] = FALSE

C8_Witness ==
    /\ pc = "ret"
    /\ call.policy.enforcement_mode = BLOCKING
    /\ ~call.override_requested
    /\ Len(call.violations) = 3
    /\ call.violations[1].severity = MEDIUM
    /\ call.violations[3].severity = CRITICAL
    /\ ~call.violations[3].is_copilot_generated
    /\ call.violations[1].is_copilot_generated
    /\ ret = <<BLOCKING, FALSE>>

\* ------------------------------------------------------ filter_violations
\* severity_order of filter_violations, and list.index on it (0-based)
severity_order == <<LOW, MEDIUM, HIGH, CRITICAL>>
severity_index(s) == (CHOOSE i \in 1..Len(severity_order) : severity_order[i] = s) - 1
InSeverityOrder(s) == \E i \in 1..Len(severity_order) : severity_order[i] = s

\* The rule checks a violation passes before its severity is looked at.
PassesRuleLists(violation, policy) ==
    /\ ~(policy.enabled_rules # {} /\ violation.rule_id \notin policy.enabled_rules)
    /\ violation.rule_id \notin policy.disabled_rules

\* A plausible slip: the threshold comparison the wrong way round.
filter_violations_reversed(violations, policy) ==
    LET Keep(v) ==
            /\ PassesRuleLists(v, policy)
            /\ ~(severity_index(v.severity) > severity_index(policy.severity_threshold))
    IN  Return(SelectSeq(violations, Keep))

\* A plausible slip: disabled_rules is not looked at.
filter_violations_keeps_disabled(violations, policy) ==
    LET Keep(v) ==
            /\ ~(policy.enabled_rules # {} /\ v.rule_id \notin policy.enabled_rules)
            /\ ~(severity_index(v.severity) < severity_index(policy.severity_threshold))
    IN  Return(SelectSeq(violations, Keep))

\* PolicyEngine.filter_violations. list.index raises ValueError for a value
\* that is not in severity_order; it is reached by the first violation that
\* passes the enabled_rules and disabled_rules checks.
filter_violations(violations, policy) ==
    LET Keep(v) ==
            /\ PassesRuleLists(v, policy)
            /\ ~(severity_index(v.severity) < severity_index(policy.severity_threshold))
        IndexRaises(v) ==
            /\ PassesRuleLists(v, policy)
            /\ ~(InSeverityOrder(v.severity) /\ InSeverityOrder(policy.severity_threshold))
    IN  IF \E i \in 1..Len(violations) : IndexRaises(violations[i])
        THEN Raise
        ELSE Return(SelectSeq(violations, Keep))

\* --------------------------------------- specification: filter_violations
FiltRuleIds == {"SEC201", "STD005"}

FiltViolations ==
    {Violation(r, "security", s, "a.py", 1, FALSE) : r \in FiltRuleIds, s \in Severity}

FiltPolicies ==
    {[PolicyConfig EXCEPT !.enabled_rules = e, !.disabled_rules = d,
                          !.severity_threshold = t] :
        e \in SUBSET FiltRuleIds, d \in SUBSET FiltRuleIds, t \in Severity}

InitFilter ==
    /\ pc = "call"
    /\ call \in [violations : SeqsUpTo(FiltViolations, MaxFiltViol),
                 policy : FiltPolicies]
    /\ ret = NoValue
    /\ fs = NoValue
    /\ rule_packs = NoValue
    /\ NoScan
    /\ NoAdapter
    /\ NoApi

CallFilterViolations ==
    /\ pc = "call"
    /\ ret' = filter_violations(call.violations, call.policy)
    /\ pc' = "ret"
    /\ UNCHANGED <<call, fs, rule_packs, apiVars, scanVars, aiVars>>

NextFilter == CallFilterViolations

SpecFilter == InitFilter /\ [][NextFilter]_vars

\* ------------------------------------------------------------ C5
\* low < medium < high < critical
SeverityRank(s) ==
    CASE s = LOW -> 1 [] s = MEDIUM -> 2 [] s = HIGH -> 3 [] s = CRITICAL -> 4

Reported(v, policy) ==
    /\ (policy.enabled_rules = {} \/ v.rule_id \in policy.enabled_rules)
    /\ v.rule_id \notin policy.disabled_rules
    /\ SeverityRank(v.severity) >= SeverityRank(policy.severity_threshold)

\* the positions of the reported violations, and the k-th smallest of them
ReportedAt(violations, policy) ==
    {i \in 1..Len(violations) : Reported(violations[i], policy)}
KthOf(S, k) == CHOOSE i \in S : Cardinality({j \in S : j < i}) = k - 1

\* C5: filter_violations returns exactly the subsequence, in the original
\* order, of the violations that pass the rule lists and the threshold.
C5_FilterIsSubsequence ==
    pc = "ret" =>
        LET at == ReportedAt(call.violations, call.policy) IN
        /\ ~ret.raised
        /\ Len(ret.value) = Cardinality(at)
        /\ \A k \in 1..Len(ret.value) : ret.value[k] = call.violations[KthOf(at, k)]

C5_Witness ==
    /\ pc = "ret"
    /\ Len(call.violations) = 3
    /\ ~ret.raised
    /\ Len(ret.value) = 2
    /\ ret.value[1] = call.violations[1]
    /\ ret.value[2] = call.violations[3]
    /\ call.violations[1] # call.violations[3]
    /\ call.violations[2].rule_id \in call.policy.disabled_rules
    /\ call.policy.severity_threshold = HIGH

\* ------------------------------------------------------------ C6
Count(v, seq) == Cardinality({i \in 1..Len(seq) : seq[i] = v})

SubMultiset(a, b) == \A i \in 1..Len(a) : Count(a[i], a) <= Count(a[i], b)

\* C6: under a threshold raised from t1 to t2 >= t1, the filtered list is a
\* sub-multiset of the list filtered under t1.
C6_SeverityMonotone ==
    pc = "ret" =>
        \A t2 \in Severity :
            SeverityRank(call.policy.severity_threshold) <= SeverityRank(t2) =>
                LET raised == filter_violations(call.violations,
                                  [call.policy EXCEPT !.severity_threshold = t2])
                IN  /\ ~raised.raised
                    /\ ~ret.raised
                    /\ SubMultiset(raised.value, ret.value)

C6_Witness ==
    /\ pc = "ret"
    /\ call.policy.severity_threshold = LOW
    /\ ~ret.raised
    /\ Len(ret.value) = 3
    /\ Len(filter_violations(call.violations,
               [call.policy EXCEPT !.severity_threshold = HIGH]).value) = 1

\* -------------------------------------------------------- apply_rule_pack
\* Lines of source text, as tokens.
Tokens == {"todo", "eval"}

\* re.compile(pattern_str): the patterns that compile, and the lines on which
\* pattern.search finds a match.
Compiles(pattern_str) == pattern_str \in {"todo", "eval", "todo|eval"}
Searches(pattern_str, line) ==
    \/ pattern_str = "todo" /\ line = "todo"
    \/ pattern_str = "eval" /\ line = "eval"
    \/ pattern_str = "todo|eval" /\ line \in {"todo", "eval"}

ViolationCategory ==
    {"security", "compliance", "code_quality", "license", "ip_risk", "standard"}

\* The list the check for an existing (rule_id, line_number) looks through:
\* violations + additional_violations in the source ("both").
Seen(dedupe, violations, additional_violations) ==
    CASE dedupe = "both" -> violations \o additional_violations
      [] dedupe = "nothing" -> <<>>

\* One rule of a pack, over the lines of the content: the violations it adds
\* to additional_violations (so_far), given the list passed in.  A rule with an
\* empty pattern is skipped; one whose pattern does not compile raises inside
\* the rule's try block and is skipped too.
RECURSIVE RuleLines(_, _, _, _, _, _, _)
RuleLines(rule, violations, so_far, file_path, lines, line_num, dedupe) ==
    IF line_num > Len(lines) THEN so_far
    ELSE LET seen == Seen(dedupe, violations, so_far)
             existing ==
                 \E i \in 1..Len(seen) :
                     seen[i].rule_id = rule.id /\ seen[i].line_number = line_num
             category == IF rule.category \in ViolationCategory
                         THEN rule.category ELSE "compliance"
             severity == IF rule.severity \in Severity THEN rule.severity ELSE MEDIUM
             added == IF Searches(rule.pattern, lines[line_num]) /\ ~existing
                      THEN Append(so_far, Violation(rule.id, category, severity,
                                                    file_path, line_num, FALSE))
                      ELSE so_far
         IN  RuleLines(rule, violations, added, file_path, lines, line_num + 1, dedupe)

RECURSIVE PackRules(_, _, _, _, _, _, _)
PackRules(custom_rules, k, violations, so_far, file_path, lines, dedupe) ==
    IF k > Len(custom_rules) THEN so_far
    ELSE LET rule == custom_rules[k]
             after == IF rule.pattern = "" \/ ~Compiles(rule.pattern)
                      THEN so_far
                      ELSE RuleLines(rule, violations, so_far, file_path, lines, 1, dedupe)
         IN  PackRules(custom_rules, k + 1, violations, after, file_path, lines, dedupe)

apply_rule_pack_with(packs, violations, pack_name, file_path, content, dedupe) ==
    IF pack_name \notin DOMAIN packs THEN Return(violations)
    ELSE LET pack == packs[pack_name] IN
         IF ~pack.is_dict THEN Raise
         ELSE IF pack.rules = <<>> THEN Return(violations)
         ELSE Return(violations \o
                     PackRules(pack.rules, 1, violations, <<>>, file_path, content, dedupe))

\* A plausible slip: no check for an existing (rule_id, line_number) at all.
apply_rule_pack_no_check(packs, violations, pack_name, file_path, content) ==
    apply_rule_pack_with(packs, violations, pack_name, file_path, content, "nothing")

\* PolicyEngine.apply_rule_pack, on the registry packs (self.rule_packs).
\* pack.get("rules", []) raises when the pack data is not a mapping.
apply_rule_pack(packs, violations, pack_name, file_path, content) ==
    apply_rule_pack_with(packs, violations, pack_name, file_path, content, "both")

\* CodeScanner.scan, the rule-pack loop: for each pack name of the policy, for
\* each file of the request, apply_rule_pack on the running list.
RECURSIVE PackFiles(_, _, _, _, _)
PackFiles(packs, acc, pack_name, files, j) ==
    IF acc.raised \/ j > Len(files) THEN acc
    ELSE PackFiles(packs,
                   apply_rule_pack(packs, acc.value, pack_name,
                                   files[j].path, files[j].content),
                   pack_name, files, j + 1)

RECURSIVE apply_rule_packs(_, _, _, _, _)
apply_rule_packs(packs, acc, pack_names, files, k) ==
    IF acc.raised \/ k > Len(pack_names) THEN acc
    ELSE apply_rule_packs(packs, PackFiles(packs, acc, pack_names[k], files, 1),
                          pack_names, files, k + 1)

\* ----------------------------------------- specification: apply_rule_pack
RuleTodo == [id |-> "R1", pattern |-> "todo", severity |-> LOW, category |-> "compliance"]
RuleBoth == [id |-> "R1", pattern |-> "todo|eval", severity |-> "severe", category |-> "style"]
RuleEval == [id |-> "R2", pattern |-> "eval", severity |-> HIGH, category |-> "security"]
RuleBad == [id |-> "R3", pattern |-> "(", severity |-> LOW, category |-> "compliance"]
RuleEmpty == [id |-> "R3", pattern |-> "", severity |-> LOW, category |-> "compliance"]

Pack(rules) == [is_dict |-> TRUE, rules |-> rules]
NotAMapping == [is_dict |-> FALSE, rules |-> <<>>]

PackDatas ==
    {NotAMapping, Pack(<<>>), Pack(<<RuleTodo>>), Pack(<<RuleTodo, RuleBoth>>),
     Pack(<<RuleBoth, RuleEval>>), Pack(<<RuleBad, RuleTodo>>),
     Pack(<<RuleEmpty, RuleEval, RuleTodo>>)}

PackViolations ==
    {Violation("R1", "compliance", LOW, "a.py", 1, FALSE),
     Violation("R1", "compliance", LOW, "b.py", 2, TRUE),
     Violation("SEC201", "security", CRITICAL, "a.py", 1, FALSE)}

PackFileLists ==
    {<<[path |-> "a.py", content |-> c1], [path |-> p2, content |-> c2]>> :
        c1 \in SeqsUpTo(Tokens, MaxPackLines),
        p2 \in {"a.py", "b.py"},
        c2 \in SeqsUpTo(Tokens, MaxPackLines)}

InitRulePack ==
    /\ pc = "call"
    /\ rule_packs \in [{"p"} -> PackDatas]
    /\ call \in [violations : SeqsUpTo(PackViolations, MaxPackViol),
                 pack_name : {"p", "q"},
                 files : PackFileLists]
    /\ ret = NoValue
    /\ fs = NoValue
    /\ NoScan
    /\ NoAdapter
    /\ NoApi

\* apply_rule_pack on the first file of the call
CallApplyRulePack ==
    /\ pc = "call"
    /\ ret' = apply_rule_pack(rule_packs, call.violations, call.pack_name,
                              call.files[1].path, call.files[1].content)
    /\ pc' = "ret"
    /\ UNCHANGED <<call, fs, rule_packs, apiVars, scanVars, aiVars>>

\* the scan's rule-pack loop under a policy that lists the pack twice
CallApplyRulePacksTwice ==
    /\ pc = "call"
    /\ ret' = apply_rule_packs(rule_packs, Return(call.violations),
                               <<call.pack_name, call.pack_name>>, call.files, 1)
    /\ pc' = "ret_twice"
    /\ UNCHANGED <<call, fs, rule_packs, apiVars, scanVars, aiVars>>

NextRulePack == CallApplyRulePack \/ CallApplyRulePacksTwice

SpecRulePack == InitRulePack /\ [][NextRulePack]_vars

\* ------------------------------------------------------------ C7
\* C7: applying a pack to the result of applying it returns that result, and
\* the scan's loop over a policy that lists a pack twice returns what the loop
\* returns for the pack listed once.
C7_RulePackIdempotent ==
    /\ (pc = "ret" /\ ~ret.raised) =>
           apply_rule_pack(rule_packs, ret.value, call.pack_name,
                           call.files[1].path, call.files[1].content) = ret
    /\ pc = "ret_twice" =>
           ret = apply_rule_packs(rule_packs, Return(call.violations),
                                  <<call.pack_name>>, call.files, 1)

\* one rule matching three lines of the file: three findings, the pack listed twice
C7_Witness ==
    /\ pc = "ret_twice"
    /\ call.pack_name = "p"
    /\ rule_packs["p"] = Pack(<<RuleTodo>>)
    /\ call.violations = <<>>
    /\ call.files[1].content = <<"todo", "todo", "todo">>
    /\ call.files[2].content = <<>>
    /\ ~ret.raised
    /\ Len(ret.value) = 3
    /\ \A i \in 1..3 : ret.value[i].rule_id = "R1" /\ ret.value[i].line_number = i

\* ------------------------------------------------------------- get_policy
\* A policy file on disk: missing, present but failing to load (yaml.safe_load
\* or PolicyConfig(**data) raises), or present and loading as a PolicyConfig.
Missing == [state |-> "missing", data |-> PolicyConfig]
Corrupt == [state |-> "corrupt", data |-> PolicyConfig]
Loads(policy) == [state |-> "ok", data |-> policy]

\* A repository name is its '/'-separated segments: "acme/app" is <<"acme", "app">>.
\* org_name is the text before the first '/', None without one.
HasOrgName(repository) == Len(repository) > 1 /\ repository[1] # ""

\* Names for which hasattr holds on a PolicyConfig though they are no field
\* (a method of BaseModel): setattr on such a name raises ValueError.
NonFieldAttributes == {"copy"}

\* for key, value in override.items(): if hasattr(policy, key): setattr(...).
\* An override is the set of its keys and their values; setattr checks no
\* type, and a key naming no attribute is skipped.
ApplyOverride(policy, override) ==
    IF override.keys \cap NonFieldAttributes # {} THEN Raise
    ELSE Return([k \in DOMAIN policy |->
                    IF k \in override.keys THEN override.vals[k] ELSE policy[k]])

\* The tiers of get_policy in the order tried: organization file, repository
\* file, defaults.  A tier whose try block is in place (guarded) turns an
\* exception into falling through to the next tier; the try block of the
\* organization tier also encloses the application of the override.
get_policy_tiers(files, repository, override, guarded) ==
    LET org_found == HasOrgName(repository) /\ files.org.state # "missing"
        repo_found == files.repo.state # "missing"
        from_org == IF files.org.state = "ok"
                    THEN ApplyOverride(files.org.data, override) ELSE Raise
        from_repo == IF files.repo.state = "ok"
                     THEN Return(files.repo.data) ELSE Raise
        default_policy == ApplyOverride(PolicyConfig, override)
        FromRepo ==
            IF ~repo_found THEN default_policy
            ELSE IF ~from_repo.raised THEN from_repo
                 ELSE IF "repo" \in guarded THEN default_policy ELSE Raise
    IN  IF ~org_found THEN FromRepo
        ELSE IF ~from_org.raised THEN from_org
             ELSE IF "org" \in guarded THEN FromRepo ELSE Raise

\* A plausible slip: the repository file is loaded outside a try block.
get_policy_unguarded(files, repository, override) ==
    get_policy_tiers(files, repository, override, {"org"})

\* PolicyEngine.get_policy
get_policy(files, repository, override) ==
    get_policy_tiers(files, repository, override, {"org", "repo"})

\* ---------------------------------------------- specification: get_policy
OrgFilePolicy ==
    [PolicyConfig EXCEPT !.enforcement_mode = BLOCKING, !.severity_threshold = HIGH,
                         !.allow_blocking_override = FALSE, !.rule_packs = <<"p">>]
RepoFilePolicy ==
    [PolicyConfig EXCEPT !.enforcement_mode = ADVISORY, !.severity_threshold = LOW,
                         !.disabled_rules = {"SEC201"}]

FileStates == {Missing, Corrupt, Loads(OrgFilePolicy), Loads(RepoFilePolicy)}

Repositories == {<<"acme", "app">>, <<"app">>, <<"", "app">>}

\* "owner" is a key that names no attribute of PolicyConfig.
OverrideKeys ==
    {"enforcement_mode", "severity_threshold", "allow_blocking_override",
     "owner", "copy"}

Overrides ==
    {o \in [keys : SUBSET OverrideKeys,
            vals : [enforcement_mode : {WARNING, ADVISORY, BLOCKING},
                    enabled_rules : {{}}, disabled_rules : {{}},
                    severity_threshold : {MEDIUM, CRITICAL},
                    rule_packs : {<<>>},
                    allow_blocking_override : BOOLEAN]] :
        \A k \in DOMAIN PolicyConfig \ o.keys : o.vals[k] = PolicyConfig[k]}

InitPolicy ==
    /\ pc = "call"
    /\ fs \in [org : FileStates, repo : FileStates]
    /\ call \in [repository : Repositories, override : Overrides]
    /\ ret = NoValue
    /\ rule_packs = NoValue
    /\ NoScan
    /\ NoAdapter
    /\ NoApi

CallGetPolicy ==
    /\ pc = "call"
    /\ ret' = get_policy(fs, call.repository, call.override)
    /\ pc' = "ret"
    /\ UNCHANGED <<call, fs, rule_packs, apiVars, scanVars, aiVars>>

NextPolicy == CallGetPolicy

SpecPolicy == InitPolicy /\ [][NextPolicy]_vars

\* ------------------------------------------------------------ C9
\* C9: on every resolution path, each attribute of the PolicyConfig that
\* get_policy returns whose name is a key of the override mapping has the
\* override's value.
C9_OverrideApplied ==
    (pc = "ret" /\ ~ret.raised) =>
        \A k \in call.override.keys \cap DOMAIN PolicyConfig :
            ret.value[k] = call.override.vals[k]

\* ------------------------------------------------------------ C10
\* every key of the override is a field of PolicyConfig or names no attribute
OverrideSettable == call.override.keys \cap NonFieldAttributes = {}

OrgUsable == HasOrgName(call.repository) /\ fs.org.state = "ok"
RepoUsable == fs.repo.state = "ok"

\* the policy of the first tier, in the order organization file, repository
\* file, defaults, whose file exists and loads
ResolvedTier ==
    IF OrgUsable THEN fs.org.data
    ELSE IF RepoUsable THEN fs.repo.data
    ELSE PolicyConfig

ScanTokens == {"eval", "todo", "def", "camel"}

\* "passwords" is a line with two hard-coded password assignments.
EngineTokens == ScanTokens \cup {"passwords"}

RECURSIVE Flatten(_)
Flatten(seqs) == IF seqs = <<>> THEN <<>> ELSE Head(seqs) \o Flatten(Tail(seqs))

\* The rules of one table of the static analyzer that match a line, in table
\* order: secret_patterns, sql_injection_patterns, unsafe_patterns.
\* _check_secrets emits one violation for each match of re.finditer,
\* the other two one for each rule that re.search finds on the line.
StaticRuleHits(table, line) ==
    IF table = "unsafe" /\ line \in {"eval", "camel"}
    THEN <<[rule_id |-> "SEC201", severity |-> CRITICAL]>>
    ELSE IF table = "secrets" /\ line = "passwords"
    THEN <<[rule_id |-> "SEC002", severity |-> CRITICAL],
           [rule_id |-> "SEC002", severity |-> CRITICAL]>>
    ELSE <<>>

\* _check_secrets, _check_sql_injection, _check_unsafe_patterns: line by line
CheckTable(table, file_path, lines, is_copilot) ==
    Flatten([n \in 1..Len(lines) |->
        LET hits == StaticRuleHits(table, lines[n])
        IN  [h \in 1..Len(hits) |->
                Violation(hits[h].rule_id, "security", hits[h].severity,
                          file_path, n, is_copilot)]])

\* StaticAnalyzer.analyze_file
analyze_file(file_path, content, is_copilot) ==
    CheckTable("secrets", file_path, content, is_copilot)
        \o CheckTable("sql", file_path, content, is_copilot)
        \o CheckTable("unsafe", file_path, content, is_copilot)

\* Lines that name a license: 'MIT License', 'GNU General Public License
\* v3.0' and 'Copyright 2024 Acme'; "blank" is an empty line.
LicenseTokens == {"mit", "gpl", "copyright", "blank"}

\* LicenseChecker.__init__: license_patterns in the order of the dict, and
\* the patterns that match a line
license_patterns == <<"MIT", "Apache", "GPL", "BSD", "Proprietary">>
restricted_licenses == {"GPL-2.0", "GPL-3.0", "AGPL-3.0", "LGPL-2.1", "LGPL-3.0"}
LicensesNamed(line) ==
    CASE line = "mit" -> {"MIT"}
      [] line = "gpl" -> {"GPL"}
      [] line = "copyright" -> {"Proprietary"}
      [] OTHER -> {}

HeaderLines == 50

\* LicenseChecker._extract_license_header: the first license type, in the
\* order of license_patterns, that the first 50 lines name; None otherwise
extract_license_header(content) ==
    LET header == SubSeq(content, 1, IF Len(content) < HeaderLines
                                     THEN Len(content) ELSE HeaderLines)
        found == {t \in 1..Len(license_patterns) :
                     \E k \in 1..Len(header) :
                         license_patterns[t] \in LicensesNamed(header[k])}
    IN  IF found = {} THEN NoValue
        ELSE license_patterns[CHOOSE t \in found : \A u \in found : t <= u]

\* LicenseChecker._check_license_compatibility
check_license_compatibility(file_path, license_type) ==
    IF license_type \in restricted_licenses
    THEN <<Violation("LIC001", "license", HIGH, file_path, 1, FALSE)>>
    ELSE <<>>

\* LicenseChecker.check_file; _check_imports reports nothing, since the
\* import line itself counts as the attribution of the library.
check_file(file_path, content) ==
    LET license_header == extract_license_header(content)
    IN  IF license_header # NoValue
        THEN check_license_compatibility(file_path, license_header)
        ELSE <<>>

\* CodingStandardsEngine.analyze_file: _check_naming_conventions reports
\* STD005 for a function name that is not in snake_case; none of the lines
\* holds a class, a constant or an except clause, the logging patterns need a
\* line break inside one line, and _check_custom_standards reports nothing.
standards_analyze_file(file_path, content, is_copilot, custom_standards) ==
    Flatten([n \in 1..Len(content) |->
        IF content[n] = "camel"
        THEN <<Violation("STD005", "standard", LOW, file_path, n, is_copilot)>>
        ELSE <<>>])

\* CopilotDetector.detect: true when the metadata carries the Copilot marker.
detect(content, metadata) == metadata.copilot

\* How a call of the AI adapter ends: "failed" when no LLM attempt succeeds
\* or the call is suppressed, otherwise by what the response holds.
AnalyzeCodeOutcomes == {"failed", "empty", "found"}
SuggestFixOutcomes == {"failed", "short", "fix"}

\* AIAnalyzer.analyze_code: the empty list on every failure of the call and
\* for a response without findings, or the violations parsed from it.
analyze_code(file_path, is_copilot, outcome) ==
    IF outcome = "found"
    THEN <<Violation("AI000", "code_quality", MEDIUM, file_path, 1, is_copilot)>>
    ELSE <<>>

\* A plausible slip: the answer of suggest_fix is stored without looking at it.
apply_fix_suggestions_unchecked(static_violations, fixes) ==
    [i \in 1..Len(static_violations) |->
        [static_violations[i] EXCEPT !.fix_suggestion =
            CASE fixes[i] = "fix" -> "ai"
              [] fixes[i] = "short" -> "ai_short"
              [] OTHER -> NoValue]]

\* A plausible slip: the AI findings are put in front of the static ones.
file_violations_ai_first(static_violations, ai_violations, license_violations, standards_violations) ==
    ai_violations \o static_violations \o license_violations
        \o standards_violations

\* scan, one file: all_violations is extended by the output of the static
\* analyzer, the AI adapter, the license checker and the standards engine,
\* in this order
file_violations(static_violations, ai_violations, license_violations, standards_violations) ==
    static_violations \o ai_violations \o license_violations
        \o standards_violations

\* scan, the enhancement loop: every static violation carries a generic fix
\* suggestion, so suggest_fix is called for each; an answer of more than 20
\* characters replaces the suggestion, None or a shorter answer keeps it.
apply_fix_suggestions(static_violations, fixes) ==
    [i \in 1..Len(static_violations) |->
        IF fixes[i] = "fix"
        THEN [static_violations[i] EXCEPT !.fix_suggestion = "ai"]
        ELSE static_violations[i]]

\* DuplicateDetector._extract_functions: the function units of a file, each
\* with its start line.  Only a path ending in .py is parsed as Python; the
\* regex fallback needs a '{' that no line has.
EndsWithPy(file_path) == file_path \in {"a.py", "b.py"}
extract_functions(file_path, content) ==
    IF EndsWithPy(file_path)
    THEN SelectSeq([n \in 1..Len(content) |->
                       [file |-> file_path, start_line |-> n, code |-> content[n]]],
                   LAMBDA u : u.code \in {"def", "camel"})
    ELSE <<>>

\* detect_duplicates, first loop: the units of all files with content
function_units(files) ==
    Flatten([k \in 1..Len(files) |->
        IF files[k].content = <<>> THEN <<>>
        ELSE extract_functions(files[k].path, files[k].content)])

\* _generate_fingerprint and _calculate_similarity: equal code has equal
\* md5 fingerprints and similarity 1.0; the fingerprints of the two different
\* codes agree on fewer than 0.85 of their characters.
Similar(func1, func2) == func1.code = func2.code

\* A plausible slip: the inner loop runs over all units, not fingerprints[i+1:].
duplicate_pairs_both_ways(files) ==
    LET fingerprints == function_units(files)
        n == Len(fingerprints)
    IN  Flatten([i \in 1..n |->
            Flatten([j \in 1..n |->
                IF /\ j # i
                   /\ fingerprints[i].file # fingerprints[j].file
                   /\ Similar(fingerprints[i], fingerprints[j])
                THEN << <<i, j>> >> ELSE <<>>])])

\* detect_duplicates, second loop: the pairs (func1, func2) reported, as
\* positions in the list of units
duplicate_pairs(files) ==
    LET fingerprints == function_units(files)
        n == Len(fingerprints)
    IN  Flatten([i \in 1..n |->
            Flatten([j \in 1..n |->
                IF /\ j > i
                   /\ fingerprints[i].file # fingerprints[j].file
                   /\ Similar(fingerprints[i], fingerprints[j])
                THEN << <<i, j>> >> ELSE <<>>])])

\* DuplicateDetector.detect_duplicates: one IP001 for each pair, at func1
detect_duplicates(files) ==
    LET fingerprints == function_units(files)
        pairs == duplicate_pairs(files)
    IN  [k \in 1..Len(pairs) |->
            Violation("IP001", "ip_risk", MEDIUM, fingerprints[pairs[k][1]].file,
                      fingerprints[pairs[k][1]].start_line, FALSE)]

\* ------------------------------------------------------------ scanner.py
\* ScanRequest(**body): pydantic keeps the declared fields and ignores any
\* other key of the body.
ScanRequestFields == {"repository", "files", "policy_config", "detect_copilot"}
ScanRequest(b) == [f \in ScanRequestFields |-> b[f]]

\* getattr(request, 'override_blocking', False)
getattr_override_blocking(req) ==
    IF "override_blocking" \in DOMAIN req THEN req["override_blocking"] ELSE FALSE

\* A plausible slip: files_affected counts the violations, not the files.
build_summary_counts_violations(violations) ==
    LET n == Len(violations)
        CountIf(P(_)) == Cardinality({i \in 1..n : P(violations[i])})
    IN  [total_violations |-> n,
         by_severity |-> [s \in Severity |-> CountIf(LAMBDA v : v.severity = s)],
         by_category |-> [c \in {violations[i].category : i \in 1..n} |->
                             CountIf(LAMBDA v : v.category = c)],
         copilot_violations |-> CountIf(LAMBDA v : v.is_copilot_generated),
         files_affected |-> n]

\* CodeScanner._build_summary
build_summary(violations) ==
    LET n == Len(violations)
        CountIf(P(_)) == Cardinality({i \in 1..n : P(violations[i])})
    IN  [total_violations |-> n,
         by_severity |-> [s \in Severity |-> CountIf(LAMBDA v : v.severity = s)],
         by_category |-> [c \in {violations[i].category : i \in 1..n} |->
                             CountIf(LAMBDA v : v.category = c)],
         copilot_violations |-> CountIf(LAMBDA v : v.is_copilot_generated),
         files_affected |-> Cardinality({violations[i].file_path : i \in 1..n})]

\* --------------------------------------------------- specification: scan
Override(keys, vals) == [keys |-> keys, vals |-> vals]

\* policy_config of the request: absent, or a mapping setattr applies as is
ScanOverrides ==
    {Override({}, PolicyConfig),
     Override({"enforcement_mode"}, [PolicyConfig EXCEPT !.enforcement_mode = BLOCKING]),
     Override({"enforcement_mode", "allow_blocking_override"},
              [PolicyConfig EXCEPT !.enforcement_mode = BLOCKING,
                                   !.allow_blocking_override = FALSE]),
     Override({"severity_threshold"},
              [PolicyConfig EXCEPT !.severity_threshold = "severe"]),
     Override({"severity_threshold", "rule_packs"},
              [PolicyConfig EXCEPT !.severity_threshold = HIGH, !.rule_packs = <<"p">>]),
     Override({"rule_packs"}, [PolicyConfig EXCEPT !.rule_packs = <<"q", "p">>]),
     Override({"severity_threshold", "rule_packs"},
              [PolicyConfig EXCEPT !.severity_threshold = LOW, !.rule_packs = <<"p">>]),
     Override({"copy"}, PolicyConfig)}

ScanFiles ==
    [path : {"", "a.py", "b.py"},
     content : SeqsUpTo(ScanTokens, MaxLines),
     metadata : [copilot : BOOLEAN]]

Bodies ==
    [repository : {<<"acme", "app">>},
     files : SeqsUpTo(ScanFiles, MaxFiles),
     policy_config : ScanOverrides,
     detect_copilot : {TRUE},
     override_blocking : BOOLEAN]

\* the rule packs loaded at start-up from config/rule_packs/*.yaml: p.yaml
\* holds one rule, q.yaml is an empty YAML file, which loads as None
LoadedRulePacks == {[n \in {"p", "q"} |-> IF n = "p" THEN Pack(<<RuleTodo>>)
                                                     ELSE NotAMapping]}

Init ==
    /\ pc = "start"
    /\ call = NoValue
    /\ ret = NoValue
    /\ fs \in [org : {Missing, Loads(OrgFilePolicy)}, repo : {Missing}]
    /\ rule_packs \in LoadedRulePacks
    /\ ai_enabled \in BOOLEAN
    /\ body \in Bodies
    /\ request = ScanRequest(body)
    /\ scan = NoValue
    /\ result = NoValue
    /\ NoAdapter
    /\ NoApi

\* scan, up to the loop over the files: the policy is resolved
ScanStart ==
    /\ pc = "start"
    /\ LET resolved == get_policy(fs, request.repository, request.policy_config)
       IN  IF resolved.raised
           THEN pc' = "raised" /\ UNCHANGED scan
           ELSE /\ pc' = "files"
                /\ scan' = [policy |-> resolved.value, all_violations |-> <<>>,
                            filtered_violations |-> <<>>,
                            copilot_detected |-> FALSE, file_index |-> 1,
                            llm_answered |-> FALSE]
    /\ UNCHANGED <<call, ret, fs, rule_packs, apiVars, ai_enabled, body, request, result, aiVars>>

\* one round of the loop over request.files
ScanFile ==
    /\ pc = "files"
    /\ scan.file_index <= Len(request.files)
    /\ LET file_data == request.files[scan.file_index]
           file_path == file_data.path
           content == file_data.content
           is_copilot == request.detect_copilot /\ detect(content, file_data.metadata)
       IN  IF file_path = ""
           THEN scan' = [scan EXCEPT !.file_index = @ + 1]
           ELSE LET static_violations == analyze_file(file_path, content, is_copilot)
                IN  \E analysis \in IF ai_enabled THEN AnalyzeCodeOutcomes
                                    ELSE {"failed"},
                       fixes \in [1..Len(static_violations) ->
                                    IF ai_enabled THEN SuggestFixOutcomes
                                    ELSE {"failed"}] :
                    scan' = [scan EXCEPT
                        !.copilot_detected = @ \/ is_copilot,
                        !.all_violations =
                            @ \o file_violations(
                                    apply_fix_suggestions(static_violations, fixes),
                                    analyze_code(file_path, is_copilot, analysis),
                                    check_file(file_path, content),
                                    standards_analyze_file(file_path, content,
                                                           is_copilot, scan.policy)),
                        !.llm_answered =
                            \/ @
                            \/ analysis # "failed"
                            \/ \E i \in DOMAIN fixes : fixes[i] # "failed",
                        !.file_index = @ + 1]
    /\ UNCHANGED <<pc, call, ret, fs, rule_packs, apiVars, ai_enabled, body, request, result, aiVars>>

\* policy filtering; an exception of filter_violations leaves scan
ScanFilter ==
    /\ pc = "files"
    /\ scan.file_index > Len(request.files)
    /\ LET filtered == filter_violations(scan.all_violations, scan.policy)
       IN  IF filtered.raised
           THEN pc' = "raised" /\ UNCHANGED scan
           ELSE /\ pc' = "packs"
                /\ scan' = [scan EXCEPT !.filtered_violations = filtered.value]
    /\ UNCHANGED <<call, ret, fs, rule_packs, apiVars, ai_enabled, body, request, result, aiVars>>

\* the rule packs of the policy, each applied to each file of the request
ScanRulePacks ==
    /\ pc = "packs"
    /\ LET packed == apply_rule_packs(rule_packs, Return(scan.filtered_violations),
                                      scan.policy.rule_packs, request.files, 1)
       IN  IF packed.raised
           THEN pc' = "raised" /\ UNCHANGED scan
           ELSE /\ pc' = "duplicates"
                /\ scan' = [scan EXCEPT !.filtered_violations = packed.value]
    /\ UNCHANGED <<call, ret, fs, rule_packs, apiVars, ai_enabled, body, request, result, aiVars>>

\* duplicate detection across the batch
ScanDuplicates ==
    /\ pc = "duplicates"
    /\ scan' = [scan EXCEPT
                   !.filtered_violations = @ \o detect_duplicates(request.files)]
    /\ pc' = "enforce"
    /\ UNCHANGED <<call, ret, fs, rule_packs, apiVars, ai_enabled, body, request, result, aiVars>>

\* the enforcement decision, the summary and the ScanResult
ScanReturn ==
    /\ pc = "enforce"
    /\ LET override_requested == getattr_override_blocking(request)
           decision == determine_enforcement(scan.filtered_violations, scan.policy,
                                             override_requested)
       IN  result' = [violations |-> scan.filtered_violations,
                      summary |-> build_summary(scan.filtered_violations),
                      enforcement_action |-> decision[1],
                      can_merge |-> decision[2],
                      copilot_detected |-> scan.copilot_detected]
    /\ pc' = "done"
    /\ UNCHANGED <<call, ret, fs, rule_packs, apiVars, ai_enabled, body, request, scan, aiVars>>

Next ==
    \/ ScanStart
    \/ ScanFile
    \/ ScanFilter
    \/ ScanRulePacks
    \/ ScanDuplicates
    \/ ScanReturn

Spec == Init /\ [][Next]_vars

\* ------------------------------------------------------------ C2
\* C2: a scan that would return (blocking, false) returns can_merge = true and
\* action warning when the request sets override_blocking and the policy
\* allows the override, and the same verdict when the policy does not.
C2_OverrideReduction ==
    (/\ pc = "done"
     /\ body.override_blocking
     /\ determine_enforcement(result.violations, scan.policy, FALSE)
            = <<BLOCKING, FALSE>>) =>
        IF scan.policy.allow_blocking_override
        THEN result.can_merge /\ result.enforcement_action = WARNING
        ELSE ~result.can_merge /\ result.enforcement_action = BLOCKING

\* ------------------------------------------------------------ C3
\* C3: scan never leaves by an exception.
C3_ScanAlwaysReturns == pc # "raised"

\* ------------------------------------------------------------ C4
\* C4: every violation of the ScanResult passes the filter of the resolved
\* policy.
C4_ResultPassesFilter ==
    (pc = "done" /\ scan.policy.severity_threshold \in Severity) =>
        \A i \in 1..Len(result.violations) :
            Reported(result.violations[i], scan.policy)

\* ------------------------------------------------------------ ai_analyzer.py
\* AIAnalyzer: the quota flag and the calls of analyze_code and suggest_fix.
\* The calls of concurrent scans share one AIAnalyzer (api/scan.py holds one
\* CodeScanner) and run as asyncio tasks: a task is suspended only at an
\* await, that is while the LLM request is under way (run_in_executor) and
\* while it backs off (asyncio.sleep); the code between two awaits is atomic.

MaxClock == 5403     \* the clock stops here

max_retries == 3
QuotaResetSeconds == 3600

\* quota_exceeded_time = None
NoTime == -1

Tasks == {1, 2}
AdapterOps == {"analyze_code", "suggest_fix", "detect_copilot_code"}

\* the operations that look at the quota flag before they call the LLM
QuotaGuardedOps == {"analyze_code", "suggest_fix"}

\* what the LLM request of one attempt ends with: a response, an error whose
\* text carries 429, quota or exceeded, any other error
LLMOutcomes == {"ok", "quota", "other"}

\* the clock advances by one of these between two steps
TickSteps == {1800, 1801}

\* a task that has not called the adapter yet
IdleTask ==
    [pc |-> "idle", op |-> NoValue, attempt |-> 0, returned |-> NoValue,
     invoked |-> FALSE, quota_attempts |-> 0, in_window |-> FALSE,
     overdue |-> FALSE, llm_calls |-> 0]

\* what analyze_code / suggest_fix return when they do not reach the LLM or
\* the LLM call fails: [] and None
EmptyOf(op) ==
    CASE op = "analyze_code" -> "empty"
      [] op = "suggest_fix" -> "nil"
      [] OTHER -> "false"

\* what they can return from a response: the parsed violations; the fix, or
\* None when the cleaned text is short
ValuesOf(op) ==
    CASE op = "analyze_code" -> {"parsed"}
      [] op = "suggest_fix" -> {"fix", "nil"}
      [] OTHER -> {"true", "false"}

\* AIAnalyzer.__init__: with an API key the adapter is enabled, or disabled
\* when the client library fails, and the quota attributes are set; without a
\* key it is disabled and __init__ returns before it sets them
\* (quota_log.initialized is false, the values of the two variables are
\* never read).
InitAI ==
    /\ pc = "adapter"
    /\ call = NoValue /\ ret = NoValue /\ fs = NoValue /\ rule_packs = NoValue
    /\ ai_enabled \in BOOLEAN
    /\ body = NoValue /\ request = NoValue /\ scan = NoValue /\ result = NoValue
    /\ quota_exceeded = FALSE
    /\ quota_exceeded_time = NoTime
    /\ now = 0
    /\ tasks = [t \in Tasks |-> IdleTask]
    /\ NoApi
    /\ \E initialized \in BOOLEAN :
          /\ ai_enabled => initialized
          /\ quota_log = [failed_at |-> NoTime, set_at |-> NoTime,
                          initialized |-> initialized]

\* The head of analyze_code and of suggest_fix, up to the first await: the
\* flag is cleared when it is more than an hour old; a disabled or suppressed
\* adapter returns at once; otherwise the prompt is built and the first LLM
\* request is sent.
AdapterCall(t, op) ==
    /\ tasks[t].pc \in {"idle", "done"}
    /\ quota_log.initialized \/ op \notin QuotaGuardedOps
    /\ LET expired == /\ op \in QuotaGuardedOps
                      /\ quota_exceeded
                      /\ quota_exceeded_time # NoTime
                      /\ now - quota_exceeded_time > QuotaResetSeconds
           flag == IF expired THEN FALSE ELSE quota_exceeded
           started ==
               [IdleTask EXCEPT
                   !.op = op,
                   !.in_window = /\ op \in QuotaGuardedOps
                                 /\ quota_log.failed_at # NoTime
                                 /\ now < quota_log.failed_at + QuotaResetSeconds,
                   !.overdue = /\ op \in QuotaGuardedOps
                               /\ quota_exceeded
                               /\ quota_log.set_at # NoTime
                               /\ now - quota_log.set_at > QuotaResetSeconds]
       IN  /\ quota_exceeded' = flag
           /\ quota_exceeded_time' = IF expired THEN NoTime ELSE quota_exceeded_time
           /\ tasks' = [tasks EXCEPT ![t] =
                  IF ~ai_enabled \/ (flag /\ op \in QuotaGuardedOps)
                  THEN [started EXCEPT !.pc = "done", !.returned = Return(EmptyOf(op))]
                  ELSE [started EXCEPT !.pc = "invoking", !.invoked = TRUE,
                                       !.llm_calls = 1]]
    /\ UNCHANGED <<pc, call, ret, fs, rule_packs, apiVars, scanVars, now, quota_log>>

\* analyze_code or suggest_fix on an adapter built without an API key:
\* __init__ returned before it set quota_exceeded and quota_exceeded_time, so
\* reading self.quota_exceeded in the first line raises AttributeError.
AdapterCallUninitialized(t, op) ==
    /\ tasks[t].pc \in {"idle", "done"}
    /\ ~quota_log.initialized /\ op \in QuotaGuardedOps
    /\ tasks' = [tasks EXCEPT ![t] =
           [IdleTask EXCEPT !.op = op, !.pc = "done", !.returned = Raise]]
    /\ UNCHANGED <<pc, call, ret, fs, rule_packs, apiVars, scanVars, quota_exceeded,
                   quota_exceeded_time, now, quota_log>>

\* _call_gemini, an attempt answered: the flag is reset and the response is
\* parsed and returned.
LLMResponds(t) ==
    /\ tasks[t].pc = "invoking"
    /\ quota_exceeded' = FALSE
    /\ \E v \in ValuesOf(tasks[t].op) :
          tasks' = [tasks EXCEPT ![t].pc = "done", ![t].returned = Return(v)]
    /\ UNCHANGED <<pc, call, ret, fs, rule_packs, apiVars, scanVars, quota_exceeded_time,
                   now, quota_log>>

\* _call_gemini, an attempt failing on quota: the flag is set; before the
\* last attempt the task sleeps; after the last one the time is recorded and
\* "Quota exceeded" is raised, which the except clause of analyze_code /
\* suggest_fix turns into the flag and the time set again and [] / None.
LLMQuotaError(t) ==
    /\ tasks[t].pc = "invoking"
    /\ quota_exceeded' = TRUE
    /\ IF tasks[t].attempt < max_retries - 1
       THEN /\ tasks' = [tasks EXCEPT ![t].pc = "sleeping",
                                      ![t].quota_attempts = @ + 1]
            /\ quota_log' = [quota_log EXCEPT !.set_at = now]
            /\ UNCHANGED quota_exceeded_time
       ELSE /\ tasks' = [tasks EXCEPT ![t].pc = "done",
                                      ![t].quota_attempts = @ + 1,
                                      ![t].returned = Return(EmptyOf(tasks[t].op))]
            /\ quota_exceeded_time' = now
            /\ quota_log' = [quota_log EXCEPT !.failed_at = now, !.set_at = now]
    /\ UNCHANGED <<pc, call, ret, fs, rule_packs, apiVars, scanVars, now>>

\* _call_gemini, an attempt failing otherwise: before the last attempt the
\* task sleeps; after it the error is raised again, and analyze_code /
\* suggest_fix log it and return [] / None.
LLMOtherError(t) ==
    /\ tasks[t].pc = "invoking"
    /\ tasks' = [tasks EXCEPT ![t] =
           IF tasks[t].attempt < max_retries - 1
           THEN [@ EXCEPT !.pc = "sleeping"]
           ELSE [@ EXCEPT !.pc = "done", !.returned = Return(EmptyOf(tasks[t].op))]]
    /\ UNCHANGED <<pc, call, ret, fs, rule_packs, apiVars, scanVars, quota_exceeded,
                   quota_exceeded_time, now, quota_log>>

\* A plausible slip: the retry starts the count of attempts again.
Retry_resets_attempt(t) ==
    /\ tasks[t].pc = "sleeping"
    /\ tasks' = [tasks EXCEPT ![t].pc = "invoking", ![t].attempt = 0,
                              ![t].llm_calls = @ + 1]
    /\ UNCHANGED <<pc, call, ret, fs, rule_packs, apiVars, scanVars, quota_exceeded,
                   quota_exceeded_time, now, quota_log>>

\* asyncio.sleep returns: the next attempt's LLM request is sent
Retry(t) ==
    /\ tasks[t].pc = "sleeping"
    /\ tasks' = [tasks EXCEPT ![t].pc = "invoking", ![t].attempt = @ + 1,
                              ![t].llm_calls = @ + 1]
    /\ UNCHANGED <<pc, call, ret, fs, rule_packs, apiVars, scanVars, quota_exceeded,
                   quota_exceeded_time, now, quota_log>>

\* Time passes.  An LLM request and a back-off sleep (retry_delay <= 300 s,
\* 2 ** attempt s) are short against a step of the clock, so the clock steps
\* between calls only.
Tick ==
    /\ pc = "adapter"
    /\ \A t \in Tasks : tasks[t].pc \in {"idle", "done"}
    /\ \E dt \in TickSteps : now + dt <= MaxClock /\ now' = now + dt
    /\ UNCHANGED <<pc, call, ret, fs, rule_packs, apiVars, scanVars, quota_exceeded,
                   quota_exceeded_time, tasks, quota_log>>

NextAI ==
    \/ \E t \in Tasks, op \in AdapterOps : AdapterCall(t, op)
    \/ \E t \in Tasks, op \in AdapterOps : AdapterCallUninitialized(t, op)
    \/ \E t \in Tasks : LLMResponds(t)
    \/ \E t \in Tasks : LLMQuotaError(t)
    \/ \E t \in Tasks : LLMOtherError(t)
    \/ \E t \in Tasks : Retry(t)
    \/ Tick

SpecAI == InitAI /\ [][NextAI]_vars

\* ------------------------------------------------------------ C11
\* C11: a call of analyze_code or suggest_fix that starts less than 3600 s
\* after a call failed on quota never invokes the LLM.
C11_SuppressedAfterQuotaFailure ==
    pc = "adapter" =>
        \A t \in Tasks :
            (tasks[t].op \in QuotaGuardedOps /\ tasks[t].in_window)
                => ~tasks[t].invoked

\* ------------------------------------------------------------ C12
\* C12: a call made more than 3600 s after quota_exceeded was last set,
\* with the flag still set, invokes the LLM again.
C12_SuppressionExpires ==
    pc = "adapter" =>
        \A t \in Tasks :
            (tasks[t].pc = "done" /\ tasks[t].overdue /\ ai_enabled)
                => tasks[t].invoked

\* ------------------------------------------------------------ C13
\* C13: a call of analyze_code whose attempts all failed on quota ends by
\* raising to its caller.
C13_QuotaErrorRaised ==
    pc = "adapter" =>
        \A t \in Tasks :
            (/\ tasks[t].pc = "done"
             /\ tasks[t].op = "analyze_code"
             /\ tasks[t].quota_attempts = max_retries) => tasks[t].returned.raised

\* ------------------------------------------ specification: engine passes
\* One pass of one engine over one file, or of the duplicate detector over a
\* batch of files.
MaxEngineLines == 2  \* lines of the file handed to an engine
MaxDupFiles == 2     \* files handed to detect_duplicates
MaxDupLines == 2     \* lines of a file handed to detect_duplicates

DupFiles ==
    [path : {"a.py", "b.py", "c.txt"},
     content : SeqsUpTo({"def", "camel"}, MaxDupLines)]

InitEngines ==
    /\ pc = "call"
    /\ \/ call \in [file_path : {"a.py"},
                    content : SeqsUpTo(EngineTokens, MaxEngineLines),
                    is_copilot : BOOLEAN]
       \/ call \in [files : SeqsUpTo(DupFiles, MaxDupFiles)]
    /\ ret = NoValue
    /\ fs = NoValue
    /\ rule_packs \in LoadedRulePacks
    /\ NoScan
    /\ NoAdapter
    /\ NoApi

CallAnalyzeFile ==
    /\ pc = "call" /\ "file_path" \in DOMAIN call
    /\ ret' = analyze_file(call.file_path, call.content, call.is_copilot)
    /\ pc' = "ret_static"
    /\ UNCHANGED <<call, fs, rule_packs, apiVars, scanVars, aiVars>>

CallCheckFile ==
    /\ pc = "call" /\ "file_path" \in DOMAIN call
    /\ ret' = check_file(call.file_path, call.content)
    /\ pc' = "ret_license"
    /\ UNCHANGED <<call, fs, rule_packs, apiVars, scanVars, aiVars>>

CallStandardsAnalyzeFile ==
    /\ pc = "call" /\ "file_path" \in DOMAIN call
    /\ ret' = standards_analyze_file(call.file_path, call.content,
                                     call.is_copilot, NoValue)
    /\ pc' = "ret_standards"
    /\ UNCHANGED <<call, fs, rule_packs, apiVars, scanVars, aiVars>>

\* one rule-pack pass: pack p applied to the file, no violations passed in
CallRulePackPass ==
    /\ pc = "call" /\ "file_path" \in DOMAIN call
    /\ ret' = apply_rule_pack(rule_packs, <<>>, "p", call.file_path,
                              call.content).value
    /\ pc' = "ret_pack"
    /\ UNCHANGED <<call, fs, rule_packs, apiVars, scanVars, aiVars>>

CallDetectDuplicates ==
    /\ pc = "call" /\ "files" \in DOMAIN call
    /\ ret' = detect_duplicates(call.files)
    /\ pc' = "ret_duplicates"
    /\ UNCHANGED <<call, fs, rule_packs, apiVars, scanVars, aiVars>>

NextEngines ==
    \/ CallAnalyzeFile
    \/ CallCheckFile
    \/ CallStandardsAnalyzeFile
    \/ CallRulePackPass
    \/ CallDetectDuplicates

SpecEngines == InitEngines /\ [][NextEngines]_vars

\* ------------------------------------------------------------ C17
Range(seq) == {seq[k] : k \in 1..Len(seq)}

\* the unordered pairs of units that a list of position pairs stands for
UnitPairs(files, pairs) ==
    [k \in 1..Len(pairs) |->
        {function_units(files)[pairs[k][1]], function_units(files)[pairs[k][2]]}]

SameMultiset(a, b) == \A x \in Range(a) \cup Range(b) : Count(x, a) = Count(x, b)

Swapped(files, a, b) ==
    [k \in 1..Len(files) |->
        IF k = a THEN files[b] ELSE IF k = b THEN files[a] ELSE files[k]]

\* the pairs of positions of units of different files whose code is similar
SimilarPairs(files) ==
    LET units == function_units(files)
    IN  {pr \in (1..Len(units)) \X (1..Len(units)) :
            /\ pr[1] < pr[2]
            /\ units[pr[1]].file # units[pr[2]].file
            /\ Similar(units[pr[1]], units[pr[2]])}

\* C17: detect_duplicates returns one IP001 for each unordered pair of
\* similar units of different files and nothing else, and the unordered pairs
\* it reports are the same multiset when two files of the request are swapped.
C17_OnePerCrossFilePair ==
    pc = "ret_duplicates" =>
        LET pairs == duplicate_pairs(call.files)
        IN  /\ Len(ret) = Cardinality(SimilarPairs(call.files))
            /\ Len(pairs) = Len(ret)
            /\ \A k \in 1..Len(ret) : ret[k].rule_id = "IP001"
            /\ \A k \in 1..Len(pairs) :
                  /\ {pairs[k][1], pairs[k][2]} \in
                         {{pr[1], pr[2]} : pr \in SimilarPairs(call.files)}
                  /\ \A m \in 1..Len(pairs) :
                         {pairs[m][1], pairs[m][2]} = {pairs[k][1], pairs[k][2]}
                             => m = k
            /\ \A a, b \in 1..Len(call.files) : a < b =>
                  SameMultiset(
                      UnitPairs(Swapped(call.files, a, b),
                                duplicate_pairs(Swapped(call.files, a, b))),
                      UnitPairs(call.files, pairs))

\* two files, one with the function twice and a different one, the other
\* with the function once: two pairs across the files, none inside a file
C17_Witness ==
    /\ pc = "ret_duplicates"
    /\ Len(call.files) = 2
    /\ call.files[1] = [path |-> "a.py", content |-> <<"def", "def">>]
    /\ call.files[2] = [path |-> "b.py", content |-> <<"camel", "def">>]
    /\ Len(ret) = 2

\* ------------------------------------------------------------ C19
ViolationKey(v) == <<v.rule_id, v.file_path, v.line_number>>

\* C19: no pass of the static analyzer, the license checker, the coding
\* standards engine, a rule pack or the duplicate detector returns two
\* violations with the same (rule_id, file_path, line_number).
C19_NoRepeatedFinding ==
    pc \in {"ret_static", "ret_license", "ret_standards", "ret_pack",
            "ret_duplicates"} =>
        \A i, j \in 1..Len(ret) :
            ViolationKey(ret[i]) = ViolationKey(ret[j]) => i = j

\* ------------------------------------------------------------ C14
\* the violations of the engines other than the AI adapter, file by file
engine_violations_without_ai(files, detect_copilot, policy_) ==
    Flatten([k \in 1..Len(files) |->
        IF files[k].path = "" THEN <<>>
        ELSE LET is_copilot == detect_copilot /\ detect(files[k].content,
                                                        files[k].metadata)
             IN  file_violations(
                     analyze_file(files[k].path, files[k].content, is_copilot),
                     <<>>,
                     check_file(files[k].path, files[k].content),
                     standards_analyze_file(files[k].path, files[k].content,
                                            is_copilot, policy_))])

\* what scan returns for a request when the AI adapter is disabled
scan_without_ai(store, registry, req) ==
    LET resolved == get_policy(store, req.repository, req.policy_config)
    IN  IF resolved.raised THEN Raise ELSE
        LET filtered == filter_violations(
                engine_violations_without_ai(req.files, req.detect_copilot,
                                             resolved.value),
                resolved.value)
        IN  IF filtered.raised THEN Raise ELSE
            LET packed == apply_rule_packs(registry, Return(filtered.value),
                                           resolved.value.rule_packs, req.files, 1)
            IN  IF packed.raised THEN Raise ELSE
                LET final == packed.value \o detect_duplicates(req.files)
                    decision == determine_enforcement(
                                    final, resolved.value,
                                    getattr_override_blocking(req))
                IN  Return([violations |-> final,
                            enforcement_action |-> decision[1],
                            can_merge |-> decision[2]])

\* C14: a scan with the AI adapter enabled in which no LLM call is answered
\* returns the violations (each with the fix suggestion its engine wrote), the
\* enforcement action and the merge verdict of the same scan with the adapter
\* disabled.
C14_AIFailuresChangeNothing ==
    (pc = "done" /\ ai_enabled /\ ~scan.llm_answered) =>
        LET reference == scan_without_ai(fs, rule_packs, request)
        IN  /\ ~reference.raised
            /\ result.violations = reference.value.violations
            /\ result.enforcement_action = reference.value.enforcement_action
            /\ result.can_merge = reference.value.can_merge

\* analyze_code failed and suggest_fix failed for a static violation, which
\* is returned with the suggestion of the static analyzer
C14_Witness ==
    /\ pc = "done" /\ ai_enabled /\ ~scan.llm_answered
    /\ \E i \in 1..Len(result.violations) :
          /\ result.violations[i].rule_id = "SEC201"
          /\ result.violations[i].fix_suggestion = "engine"

\* ------------------------------------------------------------ C15
\* C15: a file of the request without a path is skipped by the whole scan:
\* no violation of the result has an empty file_path.
C15_PathlessFileSkipped ==
    pc = "done" =>
        \A i \in 1..Len(result.violations) : result.violations[i].file_path # ""

\* ------------------------------------------------------------ C16
\* what produced a violation of the result, read from its rule id
IsDuplicateFinding(v) == v.rule_id = "IP001"
IsPackFinding(v) == v.rule_id \in {"R1", "R2", "R3"}
IsEngineFinding(v) == ~IsDuplicateFinding(v) /\ ~IsPackFinding(v)
EngineRank(v) ==
    CASE v.rule_id \in {"SEC002", "SEC201"} -> 1
      [] v.rule_id = "AI000" -> 2
      [] v.rule_id \in {"LIC001", "LIC002"} -> 3
      [] OTHER -> 4

PositionsOf(file_path) ==
    {k \in 1..Len(request.files) : request.files[k].path = file_path}

\* every file named p comes before every file named q in the request
StrictlyEarlier(p, q) ==
    \A a \in PositionsOf(p), b \in PositionsOf(q) : a < b

\* the statements of the ordering, for the violations at positions i < j
DuplicatesLast(vi, vj) == ~(IsDuplicateFinding(vi) /\ ~IsDuplicateFinding(vj))
InputOrder(vi, vj) == ~StrictlyEarlier(vj.file_path, vi.file_path)
EngineOrder(vi, vj) ==
    (/\ IsEngineFinding(vi) /\ IsEngineFinding(vj)
     /\ vi.file_path = vj.file_path
     /\ Cardinality(PositionsOf(vi.file_path)) = 1) =>
        EngineRank(vi) <= EngineRank(vj)

\* C16, as stated: duplicate findings come last; among all other findings a
\* finding of an earlier file precedes a finding of a later file; within a
\* file the order is static, AI, license, standards.
C16_OrderAsStated ==
    pc = "done" =>
        \A i, j \in 1..Len(result.violations) : i < j =>
            LET vi == result.violations[i]
                vj == result.violations[j]
            IN  /\ DuplicatesLast(vi, vj)
                /\ (~IsDuplicateFinding(vi) /\ ~IsDuplicateFinding(vj))
                       => InputOrder(vi, vj)
                /\ EngineOrder(vi, vj)

\* C16, amended: duplicate findings come last and rule-pack findings come
\* after every engine finding; among the engine findings a finding of an
\* earlier file precedes a finding of a later file, and within a file the
\* order is static, AI, license, standards.
C16_OrderOfResult ==
    pc = "done" =>
        \A i, j \in 1..Len(result.violations) : i < j =>
            LET vi == result.violations[i]
                vj == result.violations[j]
            IN  /\ DuplicatesLast(vi, vj)
                /\ ~(IsPackFinding(vi) /\ IsEngineFinding(vj))
                /\ (IsEngineFinding(vi) /\ IsEngineFinding(vj))
                       => InputOrder(vi, vj)
                /\ EngineOrder(vi, vj)

\* two files a.py, b.py: the rule-pack finding of a.py follows the static,
\* AI and standards findings of b.py
C16_Witness ==
    /\ pc = "done"
    /\ Len(request.files) = 2
    /\ request.files[1].path = "a.py" /\ request.files[2].path = "b.py"
    /\ \E i, j, k, l \in 1..Len(result.violations) :
          /\ i < j /\ j < k /\ k < l
          /\ result.violations[i].rule_id = "SEC201"
          /\ result.violations[j].rule_id = "AI000"
          /\ result.violations[k].rule_id = "STD005"
          /\ result.violations[k].file_path = "b.py"
          /\ IsPackFinding(result.violations[l])
          /\ result.violations[l].file_path = "a.py"

\* ------------------------------------------------------------ C18
\* the origin classification scan computes for the file at position k
Classification(k) ==
    request.detect_copilot /\ detect(request.files[k].content,
                                     request.files[k].metadata)

\* C18: every violation of the result located in a file of the request has
\* is_copilot_generated equal to the classification of that file, whatever
\* produced it, and summary.copilot_violations counts the violations located
\* in files classified as Copilot-generated.
C18_OriginPropagated ==
    pc = "done" =>
        /\ \A i \in 1..Len(result.violations), k \in 1..Len(request.files) :
              (/\ request.files[k].path = result.violations[i].file_path
               /\ request.files[k].path # ""
               /\ PositionsOf(request.files[k].path) = {k}) =>
                  result.violations[i].is_copilot_generated = Classification(k)
        /\ (\A k \in 1..Len(request.files) :
                PositionsOf(request.files[k].path) = {k}) =>
              result.summary.copilot_violations =
                  Cardinality({i \in 1..Len(result.violations) :
                      \E k \in 1..Len(request.files) :
                          /\ request.files[k].path = result.violations[i].file_path
                          /\ request.files[k].path # ""
                          /\ Classification(k)})

\* ------------------------------------------------------------ C20
RECURSIVE SumOver(_, _)
SumOver(f, keys) ==
    IF keys = {} THEN 0
    ELSE LET k == CHOOSE x \in keys : TRUE
         IN  f[k] + SumOver(f, keys \ {k})

\* C20: the summary of a result agrees with its violations: total_violations
\* is their number, the sum of the four by_severity counts and the sum of the
\* by_category counts; files_affected is the number of distinct file paths;
\* copilot_violations is the number of violations flagged Copilot-generated.
C20_SummaryConsistent ==
    pc = "done" =>
        LET vs == result.violations
            sm == result.summary
        IN  /\ sm.total_violations = Len(vs)
            /\ DOMAIN sm.by_severity = {LOW, MEDIUM, HIGH, CRITICAL}
            /\ sm.total_violations = SumOver(sm.by_severity, DOMAIN sm.by_severity)
            /\ sm.total_violations = SumOver(sm.by_category, DOMAIN sm.by_category)
            /\ sm.files_affected =
                   Cardinality({vs[i].file_path : i \in 1..Len(vs)})
            /\ sm.copilot_violations =
                   Cardinality({i \in 1..Len(vs) : vs[i].is_copilot_generated})

\* a result with several violations in one file and one in another, of
\* different severities and categories, some flagged Copilot-generated
C20_Witness ==
    /\ pc = "done"
    /\ Len(result.violations) >= 4
    /\ result.summary.files_affected = 2
    /\ result.summary.copilot_violations \in 1..(Len(result.violations) - 1)
    /\ Cardinality(DOMAIN result.summary.by_category) >= 3
    /\ Cardinality({s \in Severity : result.summary.by_severity[s] > 0}) >= 3

\* ------------------------------------- specification: fingerprints
\* The code of a function unit as a sequence of lexical tokens: identifiers
\* in lower case and in camelCase, an operator, whitespace runs, and comments
\* (a comment token stands for '# ...' with the newline that ends it).
MaxCodeLen == 3      \* tokens of the code of a unit

LowerIdentifiers == {"x", "sub_total"}
OtherIdentifiers == {"subTotal"}
Identifiers == LowerIdentifiers \cup OtherIdentifiers
Whitespace == {" ", "\n"}
Comments == {"#a", "#b"}
CodeTokens == Identifiers \cup Whitespace \cup Comments \cup {"+"}

\* re.sub(r'#.*$', '', code, flags=re.MULTILINE): the newline stays
remove_comments(code) ==
    [k \in 1..Len(code) |-> IF code[k] \in Comments THEN "\n" ELSE code[k]]

\* re.sub(r'\s+', ' ', code): each run of whitespace becomes one space
RECURSIVE collapse_whitespace(_)
collapse_whitespace(code) ==
    IF code = <<>> THEN <<>>
    ELSE IF Head(code) \in Whitespace
         THEN IF Len(code) > 1 /\ code[2] \in Whitespace
              THEN collapse_whitespace(Tail(code))
              ELSE <<" ">> \o collapse_whitespace(Tail(code))
         ELSE <<Head(code)>> \o collapse_whitespace(Tail(code))

\* re.sub(r'\b[a-z_][a-z0-9_]*\b', 'VAR', code): a word made of lower-case
\* letters, digits and underscores only
replace_identifiers(code) ==
    [k \in 1..Len(code) |-> IF code[k] \in LowerIdentifiers THEN "VAR" ELSE code[k]]

\* str.strip()
RECURSIVE strip(_)
strip(code) ==
    IF code # <<>> /\ Head(code) \in Whitespace THEN strip(Tail(code))
    ELSE IF code # <<>> /\ code[Len(code)] \in Whitespace
         THEN strip(SubSeq(code, 1, Len(code) - 1))
         ELSE code

\* DuplicateDetector._normalize_code
normalize_code(code) ==
    strip(replace_identifiers(collapse_whitespace(remove_comments(code))))

\* DuplicateDetector._generate_fingerprint: the md5 digest of the normalized
\* code, represented by the text it digests (equal texts, equal digests)
generate_fingerprint(code) == [md5_of |-> normalize_code(code)]

\* an edit of the code that leaves its structure alone
Renames == [kind : {"rename"}, from : Identifiers, to : Identifiers]
WhitespaceEdits ==
    [kind : {"respace"}, at : 1..MaxCodeLen, to : Whitespace]
        \cup [kind : {"space"}, at : 1..MaxCodeLen]
CommentEdits ==
    [kind : {"recomment"}, at : 1..MaxCodeLen, to : Comments]
        \cup [kind : {"comment_line"}, at : 1..MaxCodeLen]
Edits == Renames \cup WhitespaceEdits \cup CommentEdits

\* the edit can be made: a rename is to a name the code does not use; a
\* whitespace run or a comment is exchanged for another; a space is put next
\* to the operator; a comment line is put after a newline
Applicable(code, edit) ==
    CASE edit.kind = "rename" ->
             /\ edit.from # edit.to
             /\ \E k \in 1..Len(code) : code[k] = edit.from
             /\ \A k \in 1..Len(code) : code[k] # edit.to
      [] edit.kind = "respace" ->
             edit.at <= Len(code) /\ code[edit.at] \in Whitespace
      [] edit.kind = "space" ->
             /\ edit.at < Len(code)
             /\ code[edit.at] = "+" \/ code[edit.at + 1] = "+"
      [] edit.kind = "recomment" ->
             edit.at <= Len(code) /\ code[edit.at] \in Comments
      [] OTHER ->
             edit.at <= Len(code) /\ code[edit.at] = "\n"

Edited(code, edit) ==
    CASE edit.kind = "rename" ->
             [k \in 1..Len(code) |->
                 IF code[k] = edit.from THEN edit.to ELSE code[k]]
      [] edit.kind \in {"respace", "recomment"} ->
             [code EXCEPT ![edit.at] = edit.to]
      [] edit.kind = "space" ->
             SubSeq(code, 1, edit.at) \o <<" ">>
                 \o SubSeq(code, edit.at + 1, Len(code))
      [] OTHER ->
             SubSeq(code, 1, edit.at) \o <<"#a">>
                 \o SubSeq(code, edit.at + 1, Len(code))

InitFingerprint ==
    /\ pc = "call"
    /\ call \in {c \in [code : SeqsUpTo(CodeTokens, MaxCodeLen), edit : Edits] :
                    Applicable(c.code, c.edit)}
    /\ ret = NoValue
    /\ fs = NoValue
    /\ rule_packs = NoValue
    /\ NoScan
    /\ NoAdapter
    /\ NoApi

\* the fingerprint of the unit before and after the edit
CallGenerateFingerprint ==
    /\ pc = "call"
    /\ ret' = [before |-> generate_fingerprint(call.code),
               after |-> generate_fingerprint(Edited(call.code, call.edit))]
    /\ pc' = "ret"
    /\ UNCHANGED <<call, fs, rule_packs, apiVars, scanVars, aiVars>>

SpecFingerprint == InitFingerprint /\ [][CallGenerateFingerprint]_vars

\* ------------------------------------------------------------ C21
\* C21: renaming an identifier of a unit consistently to another name, or
\* changing only its whitespace or its comments, leaves the fingerprint of
\* the unit unchanged.
C21_FingerprintStable ==
    pc = "ret" => ret.before = ret.after

\* ------------------------------------------ specification: license check
MaxLicenseLines == 3  \* lines of the file after its leading blank lines

\* files whose license lines start at the top, or just inside or just outside
\* the first 50 lines
LeadingBlankLines == {0, HeaderLines - 1, HeaderLines}

InitLicense ==
    /\ pc = "call"
    /\ \E blank \in LeadingBlankLines,
          lines \in SeqsUpTo(LicenseTokens, MaxLicenseLines) :
          call = [file_path |-> "a.py",
                  content |-> [k \in 1..blank |-> "blank"] \o lines]
    /\ ret = NoValue
    /\ fs = NoValue
    /\ rule_packs = NoValue
    /\ NoScan
    /\ NoAdapter
    /\ NoApi

CallCheckFileLicense ==
    /\ pc = "call"
    /\ ret' = check_file(call.file_path, call.content)
    /\ pc' = "ret"
    /\ UNCHANGED <<call, fs, rule_packs, apiVars, scanVars, aiVars>>

SpecLicense == InitLicense /\ [][CallCheckFileLicense]_vars

\* ------------------------------------------------------------ C22
\* some line among the first 50 names the license
NamedInHeader(content, license) ==
    \E k \in 1..Len(content) :
        k <= HeaderLines /\ license \in LicensesNamed(content[k])

\* the header matches the GPL pattern and no pattern registered before it
RestrictedDetected(content) ==
    /\ NamedInHeader(content, "GPL")
    /\ ~NamedInHeader(content, "MIT")
    /\ ~NamedInHeader(content, "Apache")

\* C22: check_file returns exactly one LIC001 (high, line 1) for a file whose
\* license detected in the first 50 lines is the restricted one, and no
\* LIC001 for any other file.
C22_RestrictedLicenseReported ==
    pc = "ret" =>
        LET reported == {k \in 1..Len(ret) : ret[k].rule_id = "LIC001"}
        IN  IF RestrictedDetected(call.content)
            THEN /\ Cardinality(reported) = 1
                 /\ \A k \in reported :
                        ret[k].severity = HIGH /\ ret[k].line_number = 1
            ELSE reported = {}

\* --------------------------------- specification: length of a fix
\* The LLM answers a suggest_fix request; the response either holds a fenced
\* code block or is plain text, and `length` is the number of characters left
\* after the clean-up (the stripped code block, or the stripped text without
\* its prefix).
MaxFixLength == 25   \* characters of the cleaned response
MinFixLength == 20   \* the length the code compares with

NoSuggestion == [is_none |-> TRUE, length |-> 0]
Suggestion(length) == [is_none |-> FALSE, length |-> length]

\* AIAnalyzer.suggest_fix after the response arrived: a code block is
\* returned as it is, a text only if it is longer than 20 characters
suggest_fix_result(response) ==
    IF response.code_block THEN Suggestion(response.length)
    ELSE IF response.length > MinFixLength THEN Suggestion(response.length)
         ELSE NoSuggestion

\* scan: `if ai_fix and len(ai_fix.strip()) > 20`
replaces_suggestion(ai_fix) ==
    /\ ~ai_fix.is_none
    /\ ai_fix.length > 0
    /\ ai_fix.length > MinFixLength

InitSuggestFix ==
    /\ pc = "call"
    /\ call \in [code_block : BOOLEAN, length : 0..MaxFixLength]
    /\ ret = NoValue
    /\ fs = NoValue
    /\ rule_packs = NoValue
    /\ NoScan
    /\ NoAdapter
    /\ NoApi

\* suggest_fix returns to the scanner
SuggestFixReturns ==
    /\ pc = "call"
    /\ ret' = [ai_fix |-> suggest_fix_result(call), replaced |-> FALSE]
    /\ pc' = "returned"
    /\ UNCHANGED <<call, fs, rule_packs, apiVars, scanVars, aiVars>>

\* the scanner decides whether the suggestion replaces the generic one
ScannerEnhances ==
    /\ pc = "returned"
    /\ ret' = [ret EXCEPT !.replaced = replaces_suggestion(ret.ai_fix)]
    /\ pc' = "enhanced"
    /\ UNCHANGED <<call, fs, rule_packs, apiVars, scanVars, aiVars>>

NextSuggestFix ==
    \/ SuggestFixReturns
    \/ ScannerEnhances

SpecSuggestFix == InitSuggestFix /\ [][NextSuggestFix]_vars

\* ------------------------------------------------------------ C23
\* C23: suggest_fix returns None exactly when the cleaned response is shorter
\* than 20 characters, and the scanner replaces the fix suggestion exactly
\* when the returned suggestion has at least 20 characters.
C23_LengthBoundary ==
    /\ pc \in {"returned", "enhanced"} =>
          (ret.ai_fix.is_none <=> call.length < 20)
    /\ pc = "enhanced" =>
          (ret.replaced <=> (~ret.ai_fix.is_none /\ ret.ai_fix.length >= 20))

\* ------------------------------------------------------------ C24
\* C24: after a scan that applies rule packs, every line of every file (with
\* a path) that matches a rule of a pack of the policy has a violation with
\* that rule's id, that file's path and that line number in the result, also
\* when another file matches the same rule at the same line number.
C24_EveryFileGetsPackFindings ==
    pc = "done" =>
        \A p \in 1..Len(scan.policy.rule_packs) :
            LET pack_name == scan.policy.rule_packs[p] IN
            (pack_name \in DOMAIN rule_packs /\ rule_packs[pack_name].is_dict) =>
                \A r \in 1..Len(rule_packs[pack_name].rules),
                   k \in 1..Len(request.files) :
                    LET rule == rule_packs[pack_name].rules[r]
                        file_data == request.files[k]
                    IN  \A n \in 1..Len(file_data.content) :
                            (/\ file_data.path # ""
                             /\ rule.pattern # "" /\ Compiles(rule.pattern)
                             /\ Searches(rule.pattern, file_data.content[n])) =>
                                \E i \in 1..Len(result.violations) :
                                    /\ result.violations[i].rule_id = rule.id
                                    /\ result.violations[i].file_path = file_data.path
                                    /\ result.violations[i].line_number = n

\* ------------------------------------------------------------ C25
\* C25: at every suspension point of the adapter, under every interleaving,
\* a set quota flag comes with the time at which it was last set: no task
\* sees the flag set with a missing or an older time.
C25_AtomicQuotaPair ==
    (pc = "adapter" /\ quota_exceeded) =>
        /\ quota_exceeded_time # NoTime
        /\ quota_exceeded_time = quota_log.set_at

\* ------------------------------------------------------------ C26
\* C26: one call of analyze_code, suggest_fix or detect_copilot_code sends at
\* most 3 requests to the LLM, whatever the attempts end with: it waits for
\* a retry only after the first and the second failure, and the third
\* attempt ends the call.
C26_BoundedRetries ==
    pc = "adapter" =>
        \A t \in Tasks :
            /\ tasks[t].llm_calls <= 3
            /\ tasks[t].pc \in {"invoking", "sleeping"} =>
                   tasks[t].llm_calls = tasks[t].attempt + 1
            /\ (tasks[t].pc = "sleeping") => tasks[t].llm_calls < 3

\* a call that ended after three failed attempts of mixed kinds
C26_Witness ==
    /\ pc = "adapter"
    /\ \E t \in Tasks :
          /\ tasks[t].pc = "done"
          /\ tasks[t].op = "detect_copilot_code"
          /\ tasks[t].llm_calls = 3
          /\ tasks[t].quota_attempts = 1

\* ------------------------------------------------------------ C30
\* C30: on an adapter disabled for want of an API key, analyze_code returns
\* the empty list and suggest_fix returns None, without a request to the LLM
\* and without raising.
C30_DisabledAdapterReturnsEmpty ==
    (pc = "adapter" /\ ~ai_enabled /\ ~quota_log.initialized) =>
        \A t \in Tasks :
            (tasks[t].pc = "done" /\ tasks[t].op \in QuotaGuardedOps) =>
                /\ tasks[t].returned = Return(EmptyOf(tasks[t].op))
                /\ tasks[t].llm_calls = 0

\* --------------------------------------- specification: retry delay
\* One failed attempt of _call_gemini: its number, the kind of the error
\* (quota: the text holds 429, quota or exceeded), and the delay the text
\* names after 'retry in' / 'retry_delay', if it names one.
MaxEmbeddedDelay == 301  \* seconds named in the provider error
NoDelay == -1
DefaultRetryDelay == 60
RetryDelayMargin == 5
MaxRetryDelay == 300

Min(a, b) == IF a < b THEN a ELSE b

RECURSIVE Pow2(_)
Pow2(k) == IF k = 0 THEN 1 ELSE 2 * Pow2(k - 1)

\* A plausible slip: the delay of the provider is taken without the cap.
retry_wait_uncapped(attempt, kind, embedded) ==
    IF kind = "quota"
    THEN IF embedded # NoDelay THEN embedded + RetryDelayMargin
         ELSE DefaultRetryDelay
    ELSE Pow2(attempt)

\* _call_gemini, the except clause: the seconds passed to asyncio.sleep
\* before the next attempt
retry_wait(attempt, kind, embedded) ==
    IF kind = "quota"
    THEN IF embedded # NoDelay
         THEN Min(embedded + RetryDelayMargin, MaxRetryDelay)
         ELSE DefaultRetryDelay
    ELSE Pow2(attempt)

InitRetryDelay ==
    /\ pc = "call"
    /\ call \in [attempt : 0..(max_retries - 1), kind : {"quota", "other"},
                 embedded : {NoDelay} \cup 0..MaxEmbeddedDelay]
    /\ ret = NoValue
    /\ fs = NoValue
    /\ rule_packs = NoValue
    /\ NoScan
    /\ NoAdapter
    /\ NoApi

\* the attempt fails: the call sleeps before the next attempt, or raises
\* after the last one
AttemptFails ==
    /\ pc = "call"
    /\ ret' = IF call.attempt < max_retries - 1
              THEN [sleeps |-> TRUE,
                    wait |-> retry_wait(call.attempt, call.kind, call.embedded)]
              ELSE [sleeps |-> FALSE, wait |-> 0]
    /\ pc' = "ret"
    /\ UNCHANGED <<call, fs, rule_packs, apiVars, scanVars, aiVars>>

SpecRetryDelay == InitRetryDelay /\ [][AttemptFails]_vars

\* ------------------------------------------------------------ C27
\* C27, as stated: after failed attempt k (k = 0, 1) the adapter waits the
\* delay the error names, capped at 300 s, when it names one, and 2^k seconds
\* otherwise; the wait never exceeds 300 s.
C27_DelayAsStated ==
    (pc = "ret" /\ call.attempt \in {0, 1}) =>
        /\ ret.sleeps
        /\ ret.wait = IF call.embedded # NoDelay THEN Min(call.embedded, 300)
                      ELSE Pow2(call.attempt)
        /\ ret.wait <= 300

\* C27, amended: after failed attempt k (k = 0, 1) the adapter waits, for a
\* quota error, the delay the error names plus 5 s, capped at 300 s, when it
\* names one, and 60 s otherwise; for any other error it waits 2^k seconds;
\* the wait never exceeds 300 s.
C27_RetryDelay ==
    (pc = "ret" /\ call.attempt \in {0, 1}) =>
        /\ ret.sleeps
        /\ ret.wait =
               CASE call.kind = "quota" /\ call.embedded # NoDelay ->
                        IF call.embedded + 5 > 300 THEN 300 ELSE call.embedded + 5
                 [] call.kind = "quota" /\ call.embedded = NoDelay -> 60
                 [] OTHER -> IF call.attempt = 0 THEN 1 ELSE 2
        /\ ret.wait <= 300

\* a quota error naming a delay so long that the cap applies
C27_Witness ==
    /\ pc = "ret"
    /\ call.attempt = 1 /\ call.kind = "quota" /\ call.embedded = 301
    /\ ret.sleeps /\ ret.wait = 300

\* ------------------------- specification: policy management interface
\* api/policies.py builds its own PolicyEngine (policy_engine); CodeScanner
\* builds another one (self.policy_engine).  Both load the rule packs of
\* config/rule_packs at start-up and both resolve policies from the files
\* under config/policies.
ApiKeys == {"acme/app", "org:acme"}

\* the repository name get_policy is called with for a key of the store
RepositoryOf(key) == IF key = "acme/app" THEN <<"acme", "app">> ELSE <<key>>

\* the policy files get_policy looks at for that name: fs holds those of
\* acme/app; config/policies/org:acme.yaml does not exist
FilesOf(key) == IF key = "acme/app" THEN fs ELSE [org |-> Missing, repo |-> Missing]

StoredPolicies ==
    {[PolicyConfig EXCEPT !.enforcement_mode = BLOCKING],
     [PolicyConfig EXCEPT !.severity_threshold = LOW, !.rule_packs = <<"new">>]}

NoOverride == [keys |-> {}, vals |-> PolicyConfig]

\* pack_data of an upload: with a 'rules' array, or without one
UploadedPacks == {Pack(<<RuleTodo>>), Pack(<<RuleEval>>)}
UploadNames == {"p", "new"}

ApiScanFiles ==
    {<<[path |-> "a.py", content |-> <<"todo", "eval">>]>>,
     <<[path |-> "a.py", content |-> <<"eval">>],
       [path |-> "b.py", content |-> <<"todo">>]>>}

Put(store, key, value) ==
    [k \in DOMAIN store \cup {key} |-> IF k = key THEN value ELSE store[k]]

InitApi ==
    /\ pc = "api"
    /\ call = [op |-> "start", key |-> NoValue]
    /\ ret = Return(NoValue)
    /\ fs \in [org : {Missing, Loads(OrgFilePolicy)},
               repo : {Missing, Loads(RepoFilePolicy)}]
    /\ rule_packs \in LoadedRulePacks
    /\ api_rule_packs = rule_packs
    /\ policies = <<>>
    /\ uploaded = {}
    /\ NoScan
    /\ NoAdapter

\* PUT /{repository} and PUT /organizations/{org_name}
UpdatePolicy(key, policy_) ==
    /\ pc = "api"
    /\ policies' = Put(policies, key, policy_)
    /\ call' = [op |-> "update_policy", key |-> key]
    /\ ret' = Return(policy_)
    /\ UNCHANGED <<pc, fs, rule_packs, api_rule_packs, uploaded, scanVars, aiVars>>

\* GET /{repository} and GET /organizations/{org_name}
GetPolicy(key) ==
    /\ pc = "api"
    /\ call' = [op |-> "get_policy", key |-> key]
    /\ ret' = get_policy(FilesOf(key), RepositoryOf(key), NoOverride)
    /\ UNCHANGED <<pc, fs, rule_packs, apiVars, scanVars, aiVars>>

\* CodeScanner.scan of a repository without policy_config: the policy its
\* own policy_engine resolves
ScanResolvesPolicy(key) ==
    /\ pc = "api"
    /\ call' = [op |-> "scan_policy", key |-> key]
    /\ ret' = get_policy(FilesOf(key), RepositoryOf(key), NoOverride)
    /\ UNCHANGED <<pc, fs, rule_packs, apiVars, scanVars, aiVars>>

\* POST /rule-packs/upload: pack_data without 'rules' is refused
UploadRulePack(pack_name, pack_data, has_rules) ==
    /\ pc = "api"
    /\ call' = [op |-> "upload_rule_pack", key |-> pack_name]
    /\ IF has_rules
       THEN /\ api_rule_packs' = Put(api_rule_packs, pack_name, pack_data)
            /\ uploaded' = uploaded \cup {pack_name}
            /\ ret' = Return("success")
       ELSE /\ ret' = Raise
            /\ UNCHANGED <<api_rule_packs, uploaded>>
    /\ UNCHANGED <<pc, fs, rule_packs, policies, scanVars, aiVars>>

\* CodeScanner.scan, the rule-pack loop of a scan whose policy lists
\* pack_name, on the files of the request
ScanAppliesRulePack(pack_name, files) ==
    /\ pc = "api"
    /\ call' = [op |-> "scan_rule_pack", key |-> pack_name, files |-> files]
    /\ ret' = apply_rule_packs(rule_packs, Return(<<>>), <<pack_name>>, files, 1)
    /\ UNCHANGED <<pc, fs, rule_packs, apiVars, scanVars, aiVars>>

NextApi ==
    \/ \E key \in ApiKeys, policy_ \in StoredPolicies : UpdatePolicy(key, policy_)
    \/ \E key \in ApiKeys : GetPolicy(key)
    \/ \E key \in ApiKeys : ScanResolvesPolicy(key)
    \/ \E pack_name \in UploadNames, pack_data \in UploadedPacks,
          has_rules \in BOOLEAN : UploadRulePack(pack_name, pack_data, has_rules)
    \/ \E pack_name \in UploadNames, files \in ApiScanFiles :
          ScanAppliesRulePack(pack_name, files)

SpecApi == InitApi /\ [][NextApi]_vars

\* ------------------------------------------------------------ C28
\* C28: once a policy is stored for a repository or an organization, every
\* later resolution for that key (a GET of the policy, or a scan of the
\* repository without override) returns the policy stored last.
C28_ReadAfterWrite ==
    (/\ pc = "api"
     /\ call.op \in {"get_policy", "scan_policy"}
     /\ call.key \in DOMAIN policies) =>
        /\ ~ret.raised
        /\ ret.value = policies[call.key]

\* ------------------------------------------------------------ C29
\* C29: once a rule pack is uploaded under a name, every later scan whose
\* policy lists the name applies the rules uploaded last under it.
C29_UploadedPackApplies ==
    (/\ pc = "api"
     /\ call.op = "scan_rule_pack"
     /\ call.key \in uploaded) =>
        ret = apply_rule_packs(api_rule_packs, Return(<<>>), <<call.key>>,
                               call.files, 1)

====
